---- MODULE Spec2Model ----
(***************************************************************************)
(* Network transport layer of the RDP client (transport.c): layer          *)
(* management, the blocking single-PDU read, the non-blocking dispatch     *)
(* loop and the write path, over a byte endpoint that delivers a stream    *)
(* of framed PDUs in arbitrary chunks.  The PulseAudio device of the       *)
(* sound channel (rdpsnd_pulse.c) and its use of the mainloop lock.        *)
(***************************************************************************)
EXTENDS Integers, Sequences, FiniteSets, TLC

VARIABLES
    layer,          \* transport->layer: "TCP" | "TLS" | "CLOSED"
    tls,            \* transport->tls: "null" | "set"
    tls_sockfd,     \* transport->tls->sockfd (meaningful when tls = "set")
    tcp_sockfd,     \* transport->tcp->sockfd
    blocking,       \* transport->blocking
    level,          \* transport->level
    credssp,        \* transport->credssp: "null" | "live" | "freed"
    auth,           \* transport->settings->authentication
    recv_data,      \* transport->recv_buffer->data (the bytes written so far)
    recv_pos,       \* transport->recv_buffer->p - data
    recv_size,      \* transport->recv_buffer->size
    rs_data,        \* transport->recv_stream->data (blocking-path stream)
    pc,             \* "idle" | "callback": where the driving thread is
    cb_status,      \* status held by transport_check_fds while the callback runs
    wire,           \* bytes of the peer's stream that have not yet arrived
    sock,           \* bytes that arrived at the socket and were not yet read
    peer,           \* "open" | "dead": a dead endpoint answers every call with -1
    pdus,           \* the PDUs the peer sent, in order (history)
    taken,          \* number of bytes read from the endpoint so far (history)
    pending,        \* bytes read into recv_buffer minus bytes handed to the callback
    delivered,      \* the buffers the callback was invoked with, in order (history)
    write_failed,   \* a transport_write call has returned a negative status (history)
    ret,            \* the last event: the call made and what it returned
    hdr,            \* a 4-byte header prefix (length-computation specification)
    pdu_len,        \* the length transport_read computed for hdr, or -1
    pulse_context,    \* pulse->context: "null" | "set"
    pulse_stream,     \* pulse->stream: "null" | "set"
    pulse_rec_stream, \* pulse->rec_stream: "null" | "set"
    mainloop_lock     \* times the calling thread holds the lock of pulse->mainloop

vars == <<layer, tls, tls_sockfd, tcp_sockfd, blocking, level, credssp, auth,
          recv_data, recv_pos, recv_size, rs_data, pc, cb_status, wire, sock,
          peer, pdus, taken, pending, delivered, write_failed, ret, hdr, pdu_len,
          pulse_context, pulse_stream, pulse_rec_stream, mainloop_lock>>

layerVars == <<layer, tls, tls_sockfd, tcp_sockfd, credssp, auth>>
rxVars    == <<recv_data, recv_pos, recv_size, pending, delivered>>
endVars   == <<wire, sock, taken>>
hdrVars   == <<hdr, pdu_len>>
pulseVars == <<pulse_context, pulse_stream, pulse_rec_stream, mainloop_lock>>

-----------------------------------------------------------------------------
(* Bounds of the model *)

\* longest stream, in PDUs, the peer sends
MaxPdus == 2

\* largest source buffer handed to transport_write
MaxWrite == 2

(* Program constants *)

BUFFER_SIZE == 16384

-----------------------------------------------------------------------------
(* C integer operators on non-negative values *)

Min(a, b) == IF a < b THEN a ELSE b

RECURSIVE BitAnd(_, _)
BitAnd(x, y) ==
    IF x = 0 \/ y = 0 THEN 0
    ELSE (x % 2) * (y % 2) + 2 * BitAnd(x \div 2, y \div 2)

RECURSIVE BitOr(_, _)
BitOr(x, y) ==
    IF x = 0 THEN y
    ELSE IF y = 0 THEN x
    ELSE (IF x % 2 = 1 \/ y % 2 = 1 THEN 1 ELSE 0) + 2 * BitOr(x \div 2, y \div 2)

\* x << n
Shl(x, n) == x * (2 ^ n)

\* ~x on a 32-bit int, without the sign bit: the bits of ~x that an operand
\* promoted from uint8 or uint16 can meet
Not32(x) == 2147483647 - x

-----------------------------------------------------------------------------
(* Streams *)

\* bytes bs stored at data + off
StoreAt(data, off, bs) ==
    LET n == IF Len(data) > off + Len(bs) THEN Len(data) ELSE off + Len(bs)
    IN  [i \in 1..n |->
            IF i > off /\ i <= off + Len(bs) THEN bs[i - off]
            ELSE IF i <= Len(data) THEN data[i]
            ELSE 0]

\* stream_check_size(s, n): while pos + n does not fit, the stream is extended
\* by the larger of n and its size
RECURSIVE stream_check_size(_, _, _)
stream_check_size(size, pos, n) ==
    IF pos + n > size
    THEN stream_check_size(size + (IF n > size THEN n ELSE size), pos, n)
    ELSE size

Drop(s, n) == SubSeq(s, n + 1, Len(s))

RECURSIVE Flatten(_)
Flatten(ss) == IF ss = <<>> THEN <<>> ELSE Head(ss) \o Flatten(Tail(ss))

-----------------------------------------------------------------------------
(* Framing: the length computation of transport_read *)

\* TPKT header: big-endian 16-bit length at bytes [2..4]
TpktLength(d) == BitOr(Shl(d[3], 8), d[4])

\* (mutation) the two-byte header of the long form is counted as the short one
TsRequestLengthShortHeader(d) ==
    IF BitAnd(d[2], 128) # 0 THEN
        IF BitAnd(d[2], Not32(128)) = 1 THEN d[3] + 2
        ELSE IF BitAnd(d[2], Not32(128)) = 2 THEN BitOr(Shl(d[3], 8), d[4]) + 4
        ELSE 0
    ELSE d[2] + 2

\* TSRequest (NLA): ASN.1 DER length plus the size of the header
TsRequestLength(d) ==
    IF BitAnd(d[2], 128) # 0 THEN
        IF BitAnd(d[2], Not32(128)) = 1 THEN d[3] + 3
        ELSE IF BitAnd(d[2], Not32(128)) = 2 THEN BitOr(Shl(d[3], 8), d[4]) + 4
        ELSE 0
    ELSE d[2] + 2

\* (mutation) the flag bit of the first length byte is not masked out
FastPathLengthUnmasked(d) ==
    IF BitAnd(d[2], 128) # 0 THEN BitOr(Shl(d[2], 8), d[3])
    ELSE d[2]

\* Fast-Path header: one or two length bytes
FastPathLength(d) ==
    IF BitAnd(d[2], 128) # 0 THEN BitOr(Shl(BitAnd(d[2], 127), 8), d[3])
    ELSE d[2]

\* pdu_bytes of transport_read, from the first four bytes of the stream
PduBytes(d) ==
    IF d[1] = 3 THEN TpktLength(d)
    ELSE IF d[1] = 48 THEN TsRequestLength(d)
    ELSE FastPathLength(d)

-----------------------------------------------------------------------------
(* Framing: the header codecs transport_check_fds calls (tpkt.c, fastpath.c) *)

\* (mutation) the version byte is not examined
tpkt_verify_header_any(d) == TRUE

tpkt_verify_header(d) == d[1] = 3

\* the declared length (uint16), 0 when the version byte is not 3
tpkt_read_header(d) ==
    IF d[1] = 3 THEN (d[3] * 256 + d[4]) % 65536 ELSE 0

fastpath_header_length(d) == IF BitAnd(d[2], 128) # 0 THEN 3 ELSE 2

\* (mutation) the size of the header is returned in place of the PDU's length
fastpath_read_header_size(d) == IF BitAnd(d[2], 128) # 0 THEN 3 ELSE 2

fastpath_read_header(d) ==
    IF BitAnd(d[2], 128) # 0 THEN (BitAnd(d[2], 127) * 256 + d[3]) % 65536
    ELSE d[2]

-----------------------------------------------------------------------------
(* Reading *)

\* transport_read_layer(transport, data, bytes): avail is what the endpoint can
\* hand over during the call, dead says that the endpoint answers -1.
\* n is the number of bytes taken from the endpoint, calls the number of
\* endpoint reads (1 stands for "one or more" in blocking mode), blocked says
\* that a blocking read cannot return.
\* (mutation) the return of a non-blocking read after the first endpoint
\* status is missing: the loop goes on until all the bytes are read
transport_read_layer_waiting(lay, blk, avail, bytes, dead) ==
    IF bytes <= 0 THEN
        [status |-> 0, n |-> 0, calls |-> 0, blocked |-> FALSE]
    ELSE IF lay = "CLOSED" THEN
        [status |-> -1, n |-> 0, calls |-> 0, blocked |-> FALSE]
    ELSE IF dead THEN
        [status |-> -1, n |-> 0, calls |-> 1, blocked |-> FALSE]
    ELSE IF Len(avail) >= bytes THEN
        [status |-> bytes, n |-> bytes, calls |-> 1, blocked |-> FALSE]
    ELSE
        [status |-> 0, n |-> 0, calls |-> 1, blocked |-> TRUE]

transport_read_layer(lay, blk, avail, bytes, dead) ==
    IF bytes <= 0 THEN
        [status |-> 0, n |-> 0, calls |-> 0, blocked |-> FALSE]
    ELSE IF lay = "CLOSED" THEN
        [status |-> -1, n |-> 0, calls |-> 0, blocked |-> FALSE]
    ELSE IF dead THEN
        [status |-> -1, n |-> 0, calls |-> 1, blocked |-> FALSE]
    ELSE IF ~blk THEN
        [status |-> Min(bytes, Len(avail)), n |-> Min(bytes, Len(avail)),
         calls |-> 1, blocked |-> FALSE]
    ELSE IF Len(avail) >= bytes THEN
        [status |-> bytes, n |-> bytes, calls |-> 1, blocked |-> FALSE]
    ELSE
        [status |-> 0, n |-> 0, calls |-> 1, blocked |-> TRUE]

\* transport_read(transport, s) on a stream with contents data and position
\* pos.  fail = 0: the endpoint works; 1: it fails from the first endpoint read
\* of this call on; 2: it fails from the read of the body on.
transport_read(data, pos, lay, blk, avail, fail) ==
    LET stream_bytes == pos
        h  == IF stream_bytes < 4
              THEN transport_read_layer(lay, blk, avail, 4 - stream_bytes, fail = 1)
              ELSE [status |-> 0, n |-> 0, calls |-> 0, blocked |-> FALSE]
        d1 == StoreAt(data, stream_bytes, SubSeq(avail, 1, h.n))
        early == [status |-> h.status, data |-> d1, n |-> h.n, reads |-> h.calls,
                  blocked |-> h.blocked, pdu_bytes |-> -1]
    IN  IF h.blocked \/ h.status < 0 \/ h.status + stream_bytes < 4 THEN early
        ELSE
          LET sb1 == stream_bytes + h.status
              pdu_bytes == PduBytes(d1)
              b  == transport_read_layer(lay, blk, Drop(avail, h.n),
                                         pdu_bytes - sb1, fail # 0)
              d2 == StoreAt(d1, sb1, SubSeq(avail, h.n + 1, h.n + b.n))
          IN  [status |-> IF b.status < 0 THEN b.status ELSE h.status + b.status,
               data |-> d2, n |-> h.n + b.n, reads |-> h.calls + b.calls,
               blocked |-> b.blocked, pdu_bytes |-> pdu_bytes]

\* what transport_check_fds decides about pos buffered bytes d (lines 387-429):
\* "none" (empty buffer), "wait" (header or frame incomplete), "error"
\* (length 0) or "dispatch"; pos is the stream position the decision leaves.
Frame(d, pos) ==
    IF pos <= 0 THEN [kind |-> "none", length |-> 0, pos |-> pos]
    ELSE IF tpkt_verify_header(d) THEN
        IF pos <= 4 THEN [kind |-> "wait", length |-> 0, pos |-> pos]
        ELSE LET length == tpkt_read_header(d)
             IN  IF length = 0 THEN [kind |-> "error", length |-> 0, pos |-> 4]
                 ELSE IF pos < length
                      THEN [kind |-> "wait", length |-> length, pos |-> pos]
                      ELSE [kind |-> "dispatch", length |-> length, pos |-> 0]
    ELSE
        IF pos <= 2 THEN [kind |-> "wait", length |-> 0, pos |-> pos]
        ELSE IF pos < fastpath_header_length(d)
             THEN [kind |-> "wait", length |-> 0, pos |-> pos]
             ELSE LET length == fastpath_read_header(d)
                  IN  IF length = 0
                      THEN [kind |-> "error", length |-> 0,
                            pos |-> fastpath_header_length(d)]
                      ELSE IF pos < length
                           THEN [kind |-> "wait", length |-> length, pos |-> pos]
                           ELSE [kind |-> "dispatch", length |-> length, pos |-> 0]

-----------------------------------------------------------------------------
(* The peer's streams *)

\* complete PDUs of the three framings, the shortest ones first
TpktPdus      == { <<3, 0, 0, 4>>, <<3, 0, 0, 5, 170>> }
FastPathPdus  == { <<4, 2>>, <<4, 4, 17, 34>>, <<4, 128, 5, 17, 34>> }
TsRequestPdus == { <<48, 3, 1, 2, 3>>, <<48, 129, 1, 7>> }

Catalogue == TpktPdus \cup FastPathPdus \cup TsRequestPdus

SeqsUpTo(S, n) == UNION { [1..k -> S] : k \in 1..n }

Streams == SeqsUpTo(Catalogue, MaxPdus)

-----------------------------------------------------------------------------
(* Construction *)

NoCall == [op |-> "new", status |-> 0, reads |-> 0, writes |-> 0, n |-> 0, cb |-> FALSE]

\* transport_new(settings), facing a peer that sends the PDUs of stream
transport_new(stream, authentication) ==
    /\ layer = "TCP"
    /\ tls = "null"
    /\ tls_sockfd = -1
    /\ tcp_sockfd = -1
    /\ blocking = TRUE
    /\ level = 0
    /\ credssp = "null"
    /\ auth = authentication
    /\ recv_data = <<>>
    /\ recv_pos = 0
    /\ recv_size = BUFFER_SIZE
    /\ rs_data = <<>>
    /\ pc = "idle"
    /\ cb_status = NoCall
    /\ pdus = stream
    /\ wire = Flatten(stream)
    /\ sock = <<>>
    /\ peer = "open"
    /\ taken = 0
    /\ pending = 0
    /\ delivered = <<>>
    /\ write_failed = FALSE
    /\ ret = NoCall

-----------------------------------------------------------------------------
(* The endpoint *)

\* k more bytes of the peer's stream arrive at the socket of a live connection
Arrive(k) ==
    /\ peer = "open"
    /\ k \in 1..Len(wire)
    /\ sock' = sock \o SubSeq(wire, 1, k)
    /\ wire' = Drop(wire, k)
    /\ ret' = [NoCall EXCEPT !.op = "arrive"]
    /\ UNCHANGED <<pulseVars, layerVars, rxVars, hdrVars, blocking, level, rs_data, pc,
                   cb_status, peer, pdus, taken, write_failed>>

\* what a read may take: the socket's bytes, and in blocking mode the bytes
\* that arrive while the read waits
Avail == IF blocking THEN sock \o wire ELSE sock

\* the endpoint after n bytes were taken from it; a connection that failed
\* (lost) has nothing more to hand over
Take(n, lost) ==
    /\ sock' = IF lost THEN <<>> ELSE Drop(sock, Min(n, Len(sock)))
    /\ wire' = IF lost THEN <<>>
               ELSE IF n > Len(sock) THEN Drop(wire, n - Len(sock)) ELSE wire
    /\ taken' = taken + n
    /\ peer' = IF lost THEN "dead" ELSE peer

Fails == IF peer = "dead" THEN {1} ELSE {0, 1, 2}

-----------------------------------------------------------------------------
(* Mode *)

transport_set_blocking_mode(b) ==
    /\ blocking' = b
    /\ ret' = [NoCall EXCEPT !.op = "set_blocking_mode", !.status = 1]
    /\ UNCHANGED <<pulseVars, layerVars, rxVars, endVars, hdrVars, level, rs_data, pc,
                   cb_status, peer, pdus, write_failed>>

-----------------------------------------------------------------------------
(* Non-blocking dispatch *)

\* (mutation) the guard against nested calls is missing
ReenteredNever == FALSE

\* the guard against nested calls
Reentered == level # 0

\* transport_check_fds up to the return or up to the call of recv_callback
transport_check_fds(fail) ==
    /\ IF Reentered THEN
          /\ ret' = [NoCall EXCEPT !.op = "check_fds", !.status = -1]
          /\ UNCHANGED <<pulseVars, layerVars, rxVars, endVars, hdrVars, blocking, level,
                         rs_data, pc, cb_status, peer, pdus, write_failed>>
       ELSE
          \E r \in {transport_read(recv_data, recv_pos, layer, blocking, Avail, fail)} :
          LET pos == IF r.status <= 0 THEN recv_pos ELSE recv_pos + r.status
              f  == Frame(r.data, pos)
              me == [op |-> "check_fds", status |-> r.status, reads |-> r.reads,
                     writes |-> 0, n |-> r.n, cb |-> FALSE]
          IN  /\ ~r.blocked
              /\ Take(r.n, r.status < 0 /\ r.reads > 0)
              /\ recv_data' = r.data
              /\ IF r.status < 0 THEN
                    /\ recv_pos' = recv_pos
                    /\ recv_size' = stream_check_size(recv_size, recv_pos, 32 * 1024)
                    /\ pending' = pending + r.n
                    /\ ret' = me
                    /\ UNCHANGED <<delivered, level, pc, cb_status>>
                 ELSE IF f.kind = "dispatch" THEN
                    /\ recv_pos' = 0
                    /\ recv_size' = f.length
                    /\ level' = level + 1
                    /\ pc' = "callback"
                    /\ delivered' = Append(delivered, SubSeq(r.data, 1, f.length))
                    /\ pending' = pending + r.n - f.length
                    /\ cb_status' = [me EXCEPT !.cb = TRUE]
                    /\ ret' = [me EXCEPT !.op = "recv_callback", !.cb = TRUE]
                 ELSE
                    /\ recv_pos' = f.pos
                    /\ recv_size' = stream_check_size(recv_size, recv_pos, 32 * 1024)
                    /\ pending' = pending + r.n
                    /\ ret' = [me EXCEPT !.status = IF f.kind = "error" THEN -1 ELSE 0]
                    /\ UNCHANGED <<delivered, level, pc, cb_status>>
              /\ UNCHANGED <<pulseVars, layerVars, hdrVars, blocking, rs_data, pdus, write_failed>>

\* recv_callback returns ok, and transport_check_fds returns (lines 437-446)
CallbackReturn(ok) ==
    /\ pc = "callback"
    /\ level' = level - 1
    /\ recv_pos' = 0
    /\ pc' = "idle"
    /\ ret' = [cb_status EXCEPT !.status = IF ok THEN 0 ELSE -1]
    /\ cb_status' = NoCall
    /\ UNCHANGED <<pulseVars, layerVars, endVars, hdrVars, recv_data, recv_size, pending,
                   delivered, blocking, rs_data, peer, pdus, write_failed>>

-----------------------------------------------------------------------------
(* Blocking path *)

\* transport_recv_stream_init followed by transport_read into recv_stream
ReadOne(fail) ==
    \E r \in {transport_read(rs_data, 0, layer, blocking, Avail, fail)} :
        /\ ~r.blocked
        /\ Take(r.n, r.status < 0 /\ r.reads > 0)
        /\ rs_data' = r.data
        /\ ret' = [op |-> "read", status |-> r.status, reads |-> r.reads,
                   writes |-> 0, n |-> r.n, cb |-> FALSE]
        /\ UNCHANGED <<pulseVars, layerVars, rxVars, hdrVars, blocking, level, pc,
                       cb_status, pdus, write_failed>>

-----------------------------------------------------------------------------
(* Write path *)

\* transport_write on a stream of length bytes.  The endpoint either takes
\* all the bytes, the last tcp_write or tls_write returning a, or it fails
\* after it took a bytes.
WriteResult(lay, length, fail, a) ==
    IF length <= 0 THEN [status |-> -1, writes |-> 0, n |-> 0]
    ELSE IF lay = "CLOSED" THEN [status |-> -1, writes |-> 0, n |-> 0]
    ELSE IF fail THEN [status |-> -1, writes |-> 1, n |-> a]
    ELSE [status |-> a, writes |-> 1, n |-> length]

\* what the endpoint may do during a write of length bytes
WriteOutcomes(length) ==
    IF length <= 0 \/ layer = "CLOSED" THEN {<<FALSE, 0>>}
    ELSE IF peer = "dead" THEN {<<TRUE, 0>>}
    ELSE {<<FALSE, a>> : a \in 1..length} \cup {<<TRUE, a>> : a \in 0..(length - 1)}

transport_write(length, fail, a) ==
    /\ <<fail, a>> \in WriteOutcomes(length)
    /\ \E w \in {WriteResult(layer, length, fail, a)} :
        /\ layer' = IF w.status < 0 THEN "CLOSED" ELSE layer
        /\ write_failed' = (write_failed \/ w.status < 0)
        /\ Take(0, w.status < 0 /\ w.writes > 0)
        /\ ret' = [op |-> "write", status |-> w.status, reads |-> 0,
                   writes |-> w.writes, n |-> w.n, cb |-> FALSE]
    /\ UNCHANGED <<pulseVars, tls, tls_sockfd, tcp_sockfd, credssp, auth, rxVars, hdrVars,
                   blocking, level, rs_data, pc, cb_status, pdus>>

-----------------------------------------------------------------------------
(* Layer management *)

\* socket descriptors
Fds == {3}

Bool(b) == IF b THEN 1 ELSE 0

LayerCall(name, status) ==
    [op |-> name, status |-> status, reads |-> 0, writes |-> 0, n |-> 0, cb |-> FALSE]

\* tcp_connect: on success a new socket, connected to the peer
transport_connect(ok, fd) ==
    /\ tcp_sockfd' = IF ok THEN fd ELSE tcp_sockfd
    /\ peer' = IF ok THEN "open" ELSE peer
    /\ ret' = LayerCall("connect", Bool(ok))
    /\ UNCHANGED <<pulseVars, layer, tls, tls_sockfd, credssp, auth, rxVars, endVars,
                   hdrVars, blocking, level, rs_data, pc, cb_status, pdus,
                   write_failed>>

transport_attach(sockfd) ==
    /\ tcp_sockfd' = sockfd
    /\ ret' = LayerCall("attach", 0)
    /\ UNCHANGED <<pulseVars, layer, tls, tls_sockfd, credssp, auth, rxVars, endVars,
                   hdrVars, blocking, level, rs_data, pc, cb_status, peer, pdus,
                   write_failed>>

\* tls_disconnect when the layer is TLS, then tcp_disconnect: the connection is gone
transport_disconnect ==
    /\ Take(0, TRUE)
    /\ ret' = LayerCall("disconnect", 1)
    /\ UNCHANGED <<pulseVars, layerVars, rxVars, hdrVars, blocking, level, rs_data, pc,
                   cb_status, pdus, write_failed>>

\* the part the four upgrade operations share: the TLS endpoint is created
\* when there is none, the layer is switched and the socket handed over
BindTls ==
    /\ tls' = "set"
    /\ layer' = "TLS"
    /\ tls_sockfd' = tcp_sockfd

\* transport_connect_tls; ok is the result of tls_connect
transport_connect_tls(ok) ==
    /\ BindTls
    /\ ret' = LayerCall("connect_tls", Bool(ok))
    /\ UNCHANGED <<pulseVars, tcp_sockfd, credssp, auth, rxVars, endVars, hdrVars, blocking,
                   level, rs_data, pc, cb_status, peer, pdus, write_failed>>

\* the object transport->credssp points to when credssp_authenticate is
\* called: credssp_new is called only for a NULL pointer, and no call resets
\* the pointer after credssp_free
Authenticator == IF credssp = "null" THEN "live" ELSE credssp

\* transport_connect_nla; ok is the result of tls_connect, authenticated the
\* result of credssp_authenticate (on a freed object: whatever the call
\* happens to return).  The last event records the object that was
\* authenticated and then freed, "none" when the call returned before.
transport_connect_nla(ok, authenticated) ==
    /\ BindTls
    /\ credssp' = IF ok /\ auth THEN "freed" ELSE credssp
    /\ ret' = [op |-> "connect_nla",
               status |-> Bool(ok /\ (~auth \/ authenticated)),
               reads |-> 0, writes |-> 0, n |-> 0, cb |-> FALSE,
               authenticator |-> IF ok /\ auth THEN Authenticator ELSE "none"]
    /\ UNCHANGED <<pulseVars, tcp_sockfd, auth, rxVars, endVars, hdrVars, blocking,
                   level, rs_data, pc, cb_status, peer, pdus, write_failed>>

\* transport_accept_tls; ok is the result of tls_accept
transport_accept_tls(ok) ==
    /\ BindTls
    /\ ret' = LayerCall("accept_tls", Bool(ok))
    /\ UNCHANGED <<pulseVars, tcp_sockfd, credssp, auth, rxVars, endVars, hdrVars, blocking,
                   level, rs_data, pc, cb_status, peer, pdus, write_failed>>

\* transport_accept_nla; ok is the result of tls_accept
transport_accept_nla(ok) ==
    /\ BindTls
    /\ ret' = LayerCall("accept_nla", Bool(ok))
    /\ UNCHANGED <<pulseVars, tcp_sockfd, credssp, auth, rxVars, endVars, hdrVars, blocking,
                   level, rs_data, pc, cb_status, peer, pdus, write_failed>>

-----------------------------------------------------------------------------
(* The dispatch loop driven over every stream of the catalogue *)

\* no header is under computation
NoHeader == hdr = <<>> /\ pdu_len = -1

\* no sound device is loaded
NoDevice ==
    /\ pulse_context = "null" /\ pulse_stream = "null" /\ pulse_rec_stream = "null"
    /\ mainloop_lock = 0

InitDispatch == NoHeader /\ NoDevice /\ \E stream \in Streams : transport_new(stream, FALSE)

\* the session phase: the caller switches to non-blocking mode and then drives
\* transport_check_fds from its event loop
NextDispatch ==
    \/ \E k \in 1..Len(wire) : Arrive(k)
    \/ pc = "idle" /\ transport_set_blocking_mode(FALSE)
    \/ \E fail \in Fails : ~blocking /\ transport_check_fds(fail)
    \/ \E ok \in BOOLEAN : CallbackReturn(ok)

SpecDispatch == InitDispatch /\ [][NextDispatch]_vars

-----------------------------------------------------------------------------
(* Properties of the dispatch loop *)

IsPrefix(s, t) == Len(s) <= Len(t) /\ s = SubSeq(t, 1, Len(s))

Byte(d, i) == IF i <= Len(d) THEN d[i] ELSE 0

\* the total length a header declares under the wire framing rules
WireLength(d) ==
    IF Byte(d, 1) = 3 THEN Byte(d, 3) * 256 + Byte(d, 4)
    ELSE IF Byte(d, 1) = 48 THEN
        IF Byte(d, 2) < 128 THEN Byte(d, 2) + 2
        ELSE IF Byte(d, 2) = 129 THEN Byte(d, 3) + 3
        ELSE IF Byte(d, 2) = 130 THEN Byte(d, 3) * 256 + Byte(d, 4) + 4
        ELSE 0
    ELSE IF Byte(d, 2) >= 128 THEN (Byte(d, 2) - 128) * 256 + Byte(d, 3)
    ELSE Byte(d, 2)

\* a step that is a call of transport_check_fds
IsCheckFdsCall ==
    /\ ret'.op \in {"check_fds", "recv_callback"}
    /\ ~(pc = "callback" /\ pc' = "idle")

\* the dispatch loop has nothing left to do: the whole stream arrived and was
\* read, and the last call read nothing and dispatched nothing
Quiescent ==
    /\ peer = "open" /\ wire = <<>> /\ sock = <<>> /\ pc = "idle"
    /\ ret.op = "check_fds" /\ ret.status = 0 /\ ret.n = 0 /\ ~ret.cb

\* C1: for every stream of N complete PDUs and every split into arrival
\* chunks, the callback invocations are the PDUs of the stream, in order: the
\* k-th invocation carries the k-th PDU, and once the loop has nothing left to
\* do all N were delivered.
C1_CallbacksAreThePdus ==
    /\ IsPrefix(delivered, pdus)
    /\ Quiescent => delivered = pdus

\* C2: while recv_callback runs, the sealed length of recv_buffer is the total
\* length declared by the header at offset 0 under the wire framing rules
\* (TPKT, TSRequest, Fast-Path).
C2_SealedLengthIsWireLength ==
    pc = "callback" => recv_size = WireLength(recv_data)

\* C3: after every return of transport_check_fds the position of recv_buffer
\* is the number of bytes read into it and not yet delivered to the callback.
C3_PositionIsUndelivered ==
    (pc = "idle" /\ ret.op = "check_fds") => recv_pos = pending

\* C5: a call of transport_check_fds made while level is not 0 returns failure
\* and changes nothing: no endpoint read, buffer, position and level as they
\* were, no callback.
C5_NestedCallChangesNothing ==
    [][(level # 0 /\ IsCheckFdsCall) =>
          /\ ret'.status < 0 /\ ret'.reads = 0 /\ ~ret'.cb
          /\ UNCHANGED <<recv_data, recv_pos, recv_size, level, delivered,
                         pending, sock, wire, taken, pc>>]_vars

\* a nested call was refused although the socket had bytes to read
C5_Witness ==
    /\ pc = "callback" /\ level = 1 /\ sock # <<>>
    /\ ret.op = "check_fds" /\ ret.status = -1

-----------------------------------------------------------------------------
(* The blocking read driven over every stream of the catalogue *)

NextRead ==
    \/ \E k \in 1..Len(wire) : Arrive(k)
    \/ \E b \in BOOLEAN : transport_set_blocking_mode(b)
    \/ \E fail \in Fails : ReadOne(fail)

SpecRead == InitDispatch /\ [][NextRead]_vars

\* the number of bytes of the first k PDUs of the stream
StreamOffset(k) == Len(Flatten(SubSeq(pdus, 1, k)))

\* C8: one call of transport_read in blocking mode on an empty stream, made
\* when the endpoint stands at the start of a PDU, takes from the endpoint
\* exactly the bytes of that PDU, whatever its framing and declared length.
C8_ReadsExactlyOnePdu ==
    [][\A k \in 0..(Len(pdus) - 1) :
          (ret'.op = "read" /\ blocking /\ ret'.status >= 0 /\ taken = StreamOffset(k))
              => taken' - taken = Len(pdus[k + 1])]_vars

-----------------------------------------------------------------------------
(* The transport under every call sequence *)

\* the peer sends one Fast-Path PDU
SessionStreams == { << <<4, 4, 17, 34>> >> }

Init == NoHeader /\ NoDevice /\ \E stream \in SessionStreams, a \in BOOLEAN : transport_new(stream, a)

\* the owner of the transport makes its calls between dispatches; the
\* callback may call transport_check_fds and transport_write
Next ==
    \/ \E k \in 1..Len(wire) : Arrive(k)
    \/ \E sockfd \in Fds : pc = "idle" /\ transport_attach(sockfd)
    \/ \E ok \in BOOLEAN, fd \in Fds : pc = "idle" /\ transport_connect(ok, fd)
    \/ pc = "idle" /\ transport_disconnect
    \/ \E ok \in BOOLEAN : pc = "idle" /\ transport_connect_tls(ok)
    \/ \E ok \in BOOLEAN, a \in BOOLEAN : pc = "idle" /\ transport_connect_nla(ok, a)
    \/ \E ok \in BOOLEAN : pc = "idle" /\ transport_accept_tls(ok)
    \/ \E ok \in BOOLEAN : pc = "idle" /\ transport_accept_nla(ok)
    \/ \E b \in BOOLEAN : pc = "idle" /\ transport_set_blocking_mode(b)
    \/ \E fail \in Fails : pc = "idle" /\ ReadOne(fail)
    \/ \E length \in 0..MaxWrite, fail \in BOOLEAN, a \in 0..MaxWrite :
          transport_write(length, fail, a)
    \/ \E fail \in Fails : transport_check_fds(fail)
    \/ \E ok \in BOOLEAN : CallbackReturn(ok)

Spec == Init /\ [][Next]_vars

\* C4: a transport_write call that returns a negative status leaves layer
\* CLOSED, and every transport_write call made after one returns a negative
\* status without calling tcp_write or tls_write.
C4_FailedWriteIsFinal ==
    [][ret'.op = "write" =>
          /\ ret'.status < 0 => layer' = "CLOSED"
          /\ write_failed => (ret'.status < 0 /\ ret'.writes = 0)]_vars

\* C6: when tls_connect fails inside transport_connect_tls, the call returns
\* failure and layer is what it was before the call.
C6_FailedHandshakeKeepsLayer ==
    [][(ret'.op = "connect_tls" /\ ret'.status = 0) => layer' = layer]_vars

\* C7: whenever layer is TLS, tls is non-null and tls.sockfd equals tcp.sockfd.
C7_TlsSharesTheSocket ==
    layer = "TLS" => (tls = "set" /\ tls_sockfd = tcp_sockfd)

-----------------------------------------------------------------------------
(* The length computation of transport_read over header prefixes *)

\* the byte values that select a branch of the computation, and their neighbours
HdrBytes == {0, 1, 2, 3, 4, 5, 8, 48, 127, 128, 129, 130, 131, 255}

InitHdr ==
    /\ hdr \in [1..4 -> HdrBytes]
    /\ pdu_len = -1
    /\ NoDevice
    /\ transport_new(<<>>, FALSE)

\* lines 241-281 of transport_read, on a stream that holds the header hdr
ComputePduBytes ==
    /\ pdu_len = -1
    /\ pdu_len' = PduBytes(hdr)
    /\ ret' = [NoCall EXCEPT !.op = "pdu_bytes", !.status = PduBytes(hdr)]
    /\ UNCHANGED <<pulseVars, layerVars, rxVars, endVars, hdr, blocking, level, rs_data, pc,
                   cb_status, peer, pdus, write_failed>>

SpecHdr == InitHdr /\ [][ComputePduBytes]_vars

\* the wire-format rule for the headers it covers
C9_Rule(h) ==
    IF h[1] = 3 THEN h[3] * 256 + h[4]
    ELSE IF h[1] = 48 THEN
        IF h[2] < 128 THEN h[2] + 2
        ELSE IF h[2] = 129 THEN h[3] + 3
        ELSE h[3] * 256 + h[4] + 4
    ELSE IF h[2] >= 128 THEN (h[2] - 128) * 256 + h[3]
    ELSE h[2]

C9_Covered(h) == h[1] = 48 => (h[2] < 128 \/ h[2] \in {129, 130})

\* C9: for every 4-byte header prefix the total length computed by
\* transport_read is the wire-format rule: TPKT byte2*256+byte3; TSRequest
\* byte1+2, byte2+3 or byte2*256+byte3+4; Fast-Path the 15-bit or the 7-bit
\* length.  03 00 00 04 yields 4, 30 05 yields 7, 30 81 80 yields 131 and
\* 30 82 01 00 yields 260.
C9_LengthFollowsWireRule ==
    pdu_len # -1 =>
        /\ C9_Covered(hdr) => pdu_len = C9_Rule(hdr)
        /\ hdr = <<3, 0, 0, 4>> => pdu_len = 4
        /\ (hdr[1] = 48 /\ hdr[2] = 5) => pdu_len = 7
        /\ (hdr[1] = 48 /\ hdr[2] = 129 /\ hdr[3] = 128) => pdu_len = 131
        /\ hdr = <<48, 130, 1, 0>> => pdu_len = 260

\* the length of the header 30 82 01 00 was computed
C9_Witness == pdu_len # -1 /\ hdr = <<48, 130, 1, 0>>

\* C10 as stated: the Fast-Path computation yields 8 for 00 08 and 512 for
\* 80 02 00.
C10_Original ==
    pdu_len # -1 =>
        /\ (hdr[1] = 0 /\ hdr[2] = 8) => pdu_len = 8
        /\ (hdr[1] = 128 /\ hdr[2] = 2 /\ hdr[3] = 0) => pdu_len = 512

\* C10 as amended: the Fast-Path computation yields 8 for 00 08 and 2 for
\* 80 02 00, whose length byte 02 has bit 7 clear; it yields 512 for 80 82 00.
C10_FastPathExamples ==
    pdu_len # -1 =>
        /\ (hdr[1] = 0 /\ hdr[2] = 8) => pdu_len = 8
        /\ (hdr[1] = 128 /\ hdr[2] = 2 /\ hdr[3] = 0) => pdu_len = 2
        /\ (hdr[1] = 128 /\ hdr[2] = 130 /\ hdr[3] = 0) => pdu_len = 512

\* the length of a header beginning 80 02 00 was computed
C10_Witness == pdu_len # -1 /\ hdr[1] = 128 /\ hdr[2] = 2 /\ hdr[3] = 0

-----------------------------------------------------------------------------
(* The dispatch loop driven over literal byte streams *)

\* a TSRequest with the one-byte extended length: 30 81 04 01 02 03 04
TsRequestExtended == << <<48, 129, 4, 1, 2, 3, 4>> >>

\* FF FF FF FF
AllOnes == << <<255, 255, 255, 255>> >>

\* 04 00 00 00: a Fast-Path header that declares the length 0
ZeroLength == << <<4, 0, 0, 0>> >>

\* two Fast-Path PDUs back to back: 04 04 11 22 04 04 33 44
BackToBack == << <<4, 4, 17, 34>>, <<4, 4, 51, 68>> >>

ExampleStreams == {TsRequestExtended, AllOnes, ZeroLength, BackToBack}

InitExamples == NoHeader /\ NoDevice /\ \E stream \in ExampleStreams : transport_new(stream, FALSE)

SpecExamples == InitExamples /\ [][NextDispatch]_vars

\* a call of transport_check_fds made outside the callback, during which the
\* endpoint did not fail
IsWorkingCall == IsCheckFdsCall /\ level = 0 /\ peer = "open" /\ peer' = "open"

\* C11: when 30 81 04 01 02 03 04 is fed to the dispatch loop, repeated
\* transport_check_fds calls invoke the callback exactly once, with the 7
\* bytes of the input: no other buffer is ever delivered, and once the loop
\* has nothing left to do the PDU was delivered.
C11_ExtendedTsRequestDelivered ==
    pdus = TsRequestExtended =>
        /\ IsPrefix(delivered, pdus)
        /\ Quiescent => delivered = pdus

C14_OnePduPerCall ==
    [][(pdus = BackToBack /\ IsWorkingCall) =>
          /\ Len(delivered') <= Len(delivered) + 1
          /\ (sock = Flatten(BackToBack) /\ recv_pos = 0 /\ delivered = <<>>) =>
                (delivered' = <<BackToBack[1]>> /\ sock' = BackToBack[2])
          /\ (sock = BackToBack[2] /\ wire = <<>> /\ recv_pos = 0
                /\ delivered = <<BackToBack[1]>>) =>
                (delivered' = BackToBack /\ sock' = <<>>)]_vars

\* the second PDU was dispatched by a call that found its four bytes on the
\* socket
C14_Witness ==
    /\ pdus = BackToBack /\ delivered = BackToBack
    /\ ret.op = "recv_callback" /\ ret.n = 4 /\ taken = 8 /\ sock = <<>>

\* C16: level is 0 whenever the driving thread is outside the callback, by
\* whatever path transport_check_fds returned, and it is 1 while the callback
\* runs.
C16_LevelTracksCallback ==
    /\ pc = "idle" => level = 0
    /\ pc = "callback" => level = 1

\* transport_check_fds returned failure because the callback did
C16_Witness ==
    /\ pc = "idle" /\ level = 0 /\ ret.op = "check_fds" /\ ret.cb /\ ret.status = -1

-----------------------------------------------------------------------------
(* The dispatch loop driven one byte per readiness event *)

\* the event loop of the caller: every byte of the peer's stream arrives in a
\* readiness event of its own, and every event is answered with one call of
\* transport_check_fds on an endpoint that works
NextByteWise ==
    \/ pc = "idle" /\ blocking /\ transport_set_blocking_mode(FALSE)
    \/ ~blocking /\ pc = "idle" /\ ret.op # "arrive" /\ Arrive(1)
    \/ ~blocking /\ ret.op = "arrive" /\ transport_check_fds(0)
    \/ \E ok \in BOOLEAN : CallbackReturn(ok)

SpecByteWise == InitDispatch /\ [][NextByteWise]_vars

\* the event of the last byte of the stream was answered
LastEventAnswered == wire = <<>> /\ ret.op \in {"check_fds", "recv_callback"}

\* C13: when one PDU of total length L arrives one byte per readiness event,
\* with one transport_check_fds call per event, no callback is invoked before
\* the last byte has arrived, and exactly one callback was invoked once the
\* event of the L-th byte was answered, whatever the framing and the length
\* of the PDU.
C13_OneCallbackAtLastByte ==
    Len(pdus) = 1 =>
        /\ wire # <<>> => delivered = <<>>
        /\ LastEventAnswered => Len(delivered) = 1

-----------------------------------------------------------------------------
(* Properties of the transport under every call sequence, continued *)

\* C15: every transport_connect call that returns true leaves layer = TCP,
\* whatever the layer was before the call.
C15_ConnectSetsTcp ==
    [][(ret'.op = "connect" /\ ret'.status = 1) => layer' = "TCP"]_vars

\* C20: when layer is TCP or TLS and no tcp_write or tls_write of the call
\* returns a negative status, transport_write returns a non-negative status
\* and leaves layer as it was, whatever the length of the source buffer, 0
\* included.
C20_WriteSucceedsOnWorkingEndpoint ==
    [][(ret'.op = "write" /\ layer \in {"TCP", "TLS"}
            /\ ~(ret'.writes > 0 /\ ret'.status < 0)) =>
          (ret'.status >= 0 /\ layer' = layer)]_vars

\* C19: when recv_buffer begins with a TPKT header and holds 4 bytes or more,
\* a transport_check_fds call that returns 0 without a dispatch does so only
\* because fewer bytes are buffered than the header declares.
C19_TpktWaitsOnlyForTheFrame ==
    (pc = "idle" /\ ret.op = "check_fds" /\ ret.status = 0 /\ ~ret.cb
        /\ recv_pos >= 4 /\ recv_data[1] = 3) =>
            recv_pos < recv_data[3] * 256 + recv_data[4]

-----------------------------------------------------------------------------
(* Reads after the layer was closed *)

\* the peer sends one PDU
SinglePduStreams == SeqsUpTo(Catalogue, 1)

InitClosed == NoHeader /\ NoDevice /\ \E stream \in SinglePduStreams : transport_new(stream, FALSE)

\* the dispatch loop, with writes and single reads between the dispatches;
\* no call upgrades or reconnects the layer
NextClosed ==
    \/ \E k \in 1..Len(wire) : Arrive(k)
    \/ pc = "idle" /\ transport_set_blocking_mode(FALSE)
    \/ \E fail \in Fails : ~blocking /\ transport_check_fds(fail)
    \/ \E ok \in BOOLEAN : CallbackReturn(ok)
    \/ \E fail \in Fails : pc = "idle" /\ ReadOne(fail)
    \/ \E length \in 0..MaxWrite, fail \in BOOLEAN, a \in 0..MaxWrite :
          transport_write(length, fail, a)

SpecClosed == InitClosed /\ [][NextClosed]_vars

\* a step that is a call of transport_read on recv_stream
IsReadCall == ret'.op = "read"

\* C17: once a write failure has left layer CLOSED, every transport_read and
\* transport_check_fds call returns a negative status without calling
\* tcp_read or tls_read, whatever the destination buffer holds.
C17_ClosedReadsFailFast ==
    [][(layer = "CLOSED" /\ write_failed /\ (IsReadCall \/ IsCheckFdsCall)) =>
          (ret'.status < 0 /\ ret'.reads = 0)]_vars

-----------------------------------------------------------------------------
(* The descriptor list *)

\* capacity of the caller's descriptor array
MaxFds == 2

\* the descriptors of the caller's other event sources (0: unused slot)
OtherFds == {0, 7}

\* transport_get_fds(transport, rfds, rcount), on the caller's array rfds that
\* holds rcount descriptors; the last event records the array and the count
\* before and after the call
transport_get_fds(rfds, rcount) ==
    /\ ret' = [op |-> "get_fds", status |-> 0, reads |-> 0, writes |-> 0, n |-> 0,
               cb |-> FALSE, rfds_in |-> rfds, rcount_in |-> rcount,
               rfds |-> [rfds EXCEPT ![rcount + 1] = tcp_sockfd],
               rcount |-> rcount + 1]
    /\ UNCHANGED <<pulseVars, layerVars, rxVars, endVars, hdrVars, blocking, level, rs_data,
                   pc, cb_status, peer, pdus, write_failed>>

\* layer management, writes and the collection of descriptors
NextFds ==
    \/ \E sockfd \in Fds : transport_attach(sockfd)
    \/ \E ok \in BOOLEAN, fd \in Fds : transport_connect(ok, fd)
    \/ \E ok \in BOOLEAN : transport_connect_tls(ok)
    \/ \E length \in 0..MaxWrite, fail \in BOOLEAN, a \in 0..MaxWrite :
          transport_write(length, fail, a)
    \/ \E rfds \in [1..MaxFds -> OtherFds], rcount \in 0..(MaxFds - 1) :
          transport_get_fds(rfds, rcount)

SpecFds == Init /\ [][NextFds]_vars

\* the socket of the endpoint the layer tag selects
ActiveSocket == IF layer = "TLS" THEN tls_sockfd ELSE tcp_sockfd

\* C18: transport_get_fds increases the count by exactly one, stores at the
\* old count index the socket of the active layer endpoint and leaves the
\* earlier entries of the list as they were, in every layer state.
C18_AppendsTheActiveSocket ==
    [][ret'.op = "get_fds" =>
          /\ ret'.rcount = ret'.rcount_in + 1
          /\ \A i \in 1..ret'.rcount_in : ret'.rfds[i] = ret'.rfds_in[i]
          /\ layer \in {"TCP", "TLS"} => ret'.rfds[ret'.rcount_in + 1] = ActiveSocket]_vars

-----------------------------------------------------------------------------
(* The two framing recognizers and the body read, over header prefixes *)

\* size of the stream transport_read is handed: recv_stream as transport_new
\* allocated it (blocking path), recv_buffer after transport_read_nonblocking
\* made room for 32 KiB at position 0 (non-blocking path)
Capacity(caller) ==
    IF caller = "blocking" THEN BUFFER_SIZE
    ELSE stream_check_size(BUFFER_SIZE, 0, 32 * 1024)

\* lines 241-284 of transport_read on a stream that holds the header hdr and
\* nothing else: the body read stores pdu_bytes - 4 bytes at data + 4 of a
\* stream of the caller's size
BodyRead(caller) ==
    /\ pdu_len = -1
    /\ pdu_len' = PduBytes(hdr)
    /\ ret' = [op |-> "body_read", status |-> PduBytes(hdr) - 4, reads |-> 1,
               writes |-> 0, n |-> 0, cb |-> FALSE,
               size |-> Capacity(caller),
               last |-> IF PduBytes(hdr) > 4 THEN PduBytes(hdr) ELSE 4]
    /\ UNCHANGED <<pulseVars, layerVars, rxVars, endVars, hdr, blocking, level, rs_data, pc,
                   cb_status, peer, pdus, write_failed>>

\* the length transport_check_fds decodes from the buffered header
\* (lines 390-416)
DispatchLength(d) ==
    IF tpkt_verify_header(d) THEN tpkt_read_header(d) ELSE fastpath_read_header(d)

\* both recognizers applied to the header hdr: transport_read computes
\* pdu_bytes, transport_check_fds decodes length
Recognize ==
    /\ pdu_len = -1
    /\ pdu_len' = PduBytes(hdr)
    /\ ret' = [NoCall EXCEPT !.op = "recognize", !.status = DispatchLength(hdr)]
    /\ UNCHANGED <<pulseVars, layerVars, rxVars, endVars, hdr, blocking, level, rs_data, pc,
                   cb_status, peer, pdus, write_failed>>

NextFraming ==
    \/ \E caller \in {"blocking", "nonblocking"} : BodyRead(caller)
    \/ Recognize

SpecFraming == InitHdr /\ [][NextFraming]_vars

\* C21: when transport_read issues the body read, the size of the destination
\* stream is at least the declared total length of the PDU, so the last byte
\* the read may store lies inside the stream, for every declared length and
\* both callers.
C21_BodyReadFitsTheStream ==
    ret.op = "body_read" => (ret.size >= pdu_len /\ ret.last <= ret.size)

\* C26: for every header prefix, the total length transport_read computes is
\* the total length transport_check_fds decodes.
C26_RecognizersAgree ==
    ret.op = "recognize" => ret.status = pdu_len

-----------------------------------------------------------------------------
(* Properties of the transport under every call sequence, continued *)

\* C22: every transport_connect_nla call with settings->authentication set
\* that reaches the authentication, a second or later call included, runs
\* credssp_authenticate on an authenticator that was constructed and not yet
\* freed, and frees that authenticator once.
C22_AuthenticatorIsLive ==
    [][(ret'.op = "connect_nla" /\ ret'.authenticator # "none") =>
          (ret'.authenticator = "live" /\ credssp' = "freed")]_vars

\* C25: once layer is CLOSED, no operation of the transport moves it back to
\* TCP or TLS.
C25_ClosedIsAbsorbing ==
    [][layer = "CLOSED" => layer' = "CLOSED"]_vars

-----------------------------------------------------------------------------
(* The dispatch loop in non-blocking mode *)

\* 04 80 00 00: a Fast-Path header of three bytes that declares the length 0
ZeroLengthLong == << <<4, 128, 0, 0>> >>

NonBlockingStreams == SinglePduStreams \cup ExampleStreams \cup {ZeroLengthLong}

InitNonBlocking ==
    NoHeader /\ NoDevice /\ \E stream \in NonBlockingStreams : transport_new(stream, FALSE)

SpecNonBlocking == InitNonBlocking /\ [][NextDispatch]_vars

\* a wait: the read of the next transport_check_fds call cannot return before
\* more bytes arrive (tcp_can_recv or freerdp_usleep, lines 199-207)
Waits ==
    \E fail \in {0, 1, 2} :
        transport_read(recv_data, recv_pos, layer, blocking, Avail, fail).blocked

\* the buffered bytes are a complete header that declares the length 0
BufferedProtocolError == Frame(recv_data, recv_pos).kind = "error"

-----------------------------------------------------------------------------
(* The write loop, one endpoint call per step *)

\* most zero-byte results the endpoint gives during one transport_write call
MaxSleeps == 2

\* transport_write up to the loop (lines 320-324): while the call runs, the
\* last event holds its local variables: status, the remaining length, the
\* bytes handed to the endpoint (n), the endpoint calls made (writes) and
\* the zero-byte results met (sleeps)
WriteBegin(len) ==
    /\ pc = "idle"
    /\ pc' = "write"
    /\ ret' = [op |-> "write_loop", status |-> -1, reads |-> 0, writes |-> 0,
               n |-> 0, cb |-> FALSE, length |-> len, total |-> len,
               sleeps |-> 0, broke |-> FALSE]
    /\ UNCHANGED <<pulseVars, layerVars, rxVars, endVars, hdrVars, blocking, level, rs_data,
                   cb_status, peer, pdus, write_failed>>

\* what tls_write or tcp_write may return for length bytes
EndpointResults(r) ==
    IF peer = "dead" THEN {-1}
    ELSE {-1} \cup (1..r.length) \cup (IF r.sleeps < MaxSleeps THEN {0} ELSE {})

\* (mutation) a zero-byte result ends the loop as well
LoopEndsOnZero(r) == r.length <= 0 \/ r.broke \/ (r.writes > 0 /\ r.status = 0)

\* the loop is left: nothing remains, or a negative status broke it
LoopEnds(r) == r.length <= 0 \/ r.broke

\* one iteration of the loop (lines 334-353); o is the result of the endpoint
WriteStep(o) ==
    /\ pc = "write"
    /\ ~LoopEnds(ret)
    /\ IF layer = "CLOSED"
       THEN /\ o = ret.status
            /\ ret' = [ret EXCEPT !.broke = ret.status < 0,
                                  !.length = IF ret.status < 0 THEN @ ELSE @ - ret.status]
       ELSE /\ o \in EndpointResults(ret)
            /\ ret' = [ret EXCEPT !.status = o,
                                  !.writes = @ + 1,
                                  !.broke = o < 0,
                                  !.length = IF o < 0 THEN @ ELSE @ - o,
                                  !.n = IF o < 0 THEN @ ELSE @ + o,
                                  !.sleeps = IF o = 0 THEN @ + 1 ELSE @]
    /\ UNCHANGED <<pulseVars, layerVars, rxVars, endVars, hdrVars, blocking, level, rs_data,
                   pc, cb_status, peer, pdus, write_failed>>

\* the end of transport_write (lines 355-361)
WriteReturn ==
    /\ pc = "write"
    /\ LoopEnds(ret)
    /\ pc' = "idle"
    /\ layer' = IF ret.status < 0 THEN "CLOSED" ELSE layer
    /\ write_failed' = (write_failed \/ ret.status < 0)
    /\ Take(0, ret.status < 0 /\ ret.writes > 0)
    /\ ret' = [ret EXCEPT !.op = "write"]
    /\ UNCHANGED <<pulseVars, tls, tls_sockfd, tcp_sockfd, credssp, auth, rxVars, hdrVars,
                   blocking, level, rs_data, cb_status, pdus>>

\* writes, between connects and TLS upgrades
NextWrite ==
    \/ \E len \in 0..MaxWrite : WriteBegin(len)
    \/ \E o \in -1..MaxWrite : WriteStep(o)
    \/ WriteReturn
    \/ \E ok \in BOOLEAN, fd \in Fds : pc = "idle" /\ transport_connect(ok, fd)
    \/ \E ok \in BOOLEAN : pc = "idle" /\ transport_connect_tls(ok)

SpecWrite == Init /\ [][NextWrite]_vars

\* the thread that called transport_write keeps running, and the endpoint
\* gives at most MaxSleeps zero-byte results
SpecWriteLive ==
    /\ SpecWrite
    /\ WF_vars(\E o \in -1..MaxWrite : WriteStep(o))
    /\ WF_vars(WriteReturn)

\* C24: transport_write terminates when the endpoint, after finitely many
\* zero-byte results, accepts bytes or returns a negative status; while it
\* runs the bytes handed over and the bytes remaining make up the buffer, and
\* when it returns either all the bytes of the buffer were handed to the
\* endpoint or layer is CLOSED.
C24_WriteCompletesOrCloses ==
    /\ [](pc = "write" => ret.n + ret.length = ret.total)
    /\ []((pc = "idle" /\ ret.op = "write") =>
             (ret.n = ret.total \/ layer = "CLOSED"))
    /\ (pc = "write" ~> pc = "idle")

\* a write of two bytes returned with both bytes handed over, after a
\* zero-byte result, and the layer is open
C24_Witness ==
    /\ pc = "idle" /\ ret.op = "write" /\ ret.total = 2 /\ ret.n = 2
    /\ ret.sleeps > 0 /\ ret.status > 0 /\ layer # "CLOSED"

-----------------------------------------------------------------------------
(* The PulseAudio device (rdpsnd_pulse.c) and the lock of its mainloop.
   pulse_context is "new" from pa_context_new to the end of
   rdpsnd_pulse_connect, "ready" once the device is registered and "null"
   when it is freed. *)

\* the most calls of pa_threaded_mainloop_wait one loop makes
MaxWaits == 2

\* the calls an operation makes on the lock, in order: a wait releases the
\* lock while it sleeps and holds it again when it returns
Lock   == <<"lock">>
Unlock == <<"unlock">>
Wait(waits) == [i \in 1..waits |-> "wait"]

\* the number of times the lock is held after the calls of events
RECURSIVE Held(_, _)
Held(depth, events) ==
    IF events = <<>> THEN depth
    ELSE Held(IF Head(events) = "lock" THEN depth + 1
              ELSE IF Head(events) = "unlock" THEN depth - 1
              ELSE depth, Tail(events))

\* what an operation of the device leaves: its calls on the lock, the stream
\* pointer it touched and its result
Outcome(events, strm, status) == [events |-> events, stream |-> strm, status |-> status]

\* rdpsnd_pulse_connect; the inputs are the results of pa_context_connect and
\* pa_threaded_mainloop_start, the waits of the loop and the state the
\* context reaches
rdpsnd_pulse_connect(connected, started, waits, ready) ==
    IF pulse_context = "null" THEN Outcome(<<>>, pulse_stream, 0)
    ELSE IF ~connected THEN Outcome(<<>>, pulse_stream, 0)
    ELSE IF ~started THEN Outcome(Lock \o Unlock, pulse_stream, 0)
    ELSE Outcome(Lock \o Wait(waits) \o Unlock, pulse_stream, Bool(ready))

\* rdpsnd_pulse_close on the stream pointer strm; drained is the number of
\* waits of rdpsnd_pulse_wait_for_operation
rdpsnd_pulse_close(strm, drained) ==
    IF pulse_context = "null" \/ strm = "null" THEN Outcome(<<>>, strm, 0)
    ELSE Outcome(Lock \o Wait(drained) \o Unlock, "null", 0)

\* (mutation) the unlock before the return is missing when
\* pa_stream_connect_playback fails
OpenConnectFailedLocked == Outcome(Lock, "set", 0)

\* the return of rdpsnd_pulse_open when pa_stream_connect_playback fails
OpenConnectFailed == Outcome(Lock \o Unlock, "set", 0)

\* rdpsnd_pulse_open on the stream pointer strm; the inputs are the validity
\* of the sample spec, the results of pa_stream_new and
\* pa_stream_connect_playback, the waits of the loop, the state the stream
\* reaches and the waits of the rdpsnd_pulse_close that follows a bad state
rdpsnd_pulse_open(strm, valid, created, connected, waits, ready, drained) ==
    IF pulse_context = "null" \/ strm # "null" THEN Outcome(<<>>, strm, 0)
    ELSE IF ~valid THEN Outcome(<<>>, strm, 0)
    ELSE IF ~created THEN Outcome(Lock \o Unlock, "null", 0)
    ELSE IF ~connected THEN OpenConnectFailed
    ELSE IF ready THEN Outcome(Lock \o Wait(waits) \o Unlock, "set", 1)
    ELSE LET c == rdpsnd_pulse_close("set", drained)
         IN  Outcome(Lock \o Wait(waits) \o Unlock \o c.events, c.stream, 0)

\* rdpsnd_pulse_set_format: the stream is dropped, then rdpsnd_pulse_open
rdpsnd_pulse_set_format(valid, created, connected, waits, ready, drained) ==
    LET o == rdpsnd_pulse_open("null", valid, created, connected, waits, ready, drained)
    IN  IF pulse_stream # "null"
        THEN Outcome(Lock \o Unlock \o o.events, o.stream, o.status)
        ELSE o

\* rdpsnd_pulse_play of size bytes; decoded says that the decoding of the
\* data succeeded, waits counts the waits for a writable stream and written
\* says that no pa_stream_writable_size and no pa_stream_write failed
rdpsnd_pulse_play(decoded, size, waits, written) ==
    IF pulse_stream = "null" THEN Outcome(<<>>, pulse_stream, 0)
    ELSE IF ~decoded THEN Outcome(<<>>, pulse_stream, 0)
    ELSE IF size = 0 THEN Outcome(Lock \o Unlock, pulse_stream, 1)
    ELSE Outcome(Lock \o Wait(waits) \o Unlock, pulse_stream, Bool(written))

\* rdpsnd_pulse_rec_close on the stream pointer strm
rdpsnd_pulse_rec_close(strm) ==
    IF pulse_context = "null" \/ strm = "null" THEN Outcome(<<>>, strm, -1)
    ELSE Outcome(Lock \o Unlock, "null", 0)

\* rdpsnd_pulse_rec_open; the inputs are the sample rate being set, the
\* results of pa_stream_new and pa_stream_connect_record, the waits of the
\* loop and the state the stream reaches
rdpsnd_pulse_rec_open(rate, created, connected, waits, ready) ==
    IF pulse_context = "null" THEN Outcome(<<>>, pulse_rec_stream, -1)
    ELSE IF ~rate \/ pulse_rec_stream # "null" THEN Outcome(<<>>, pulse_rec_stream, -1)
    ELSE IF ~created THEN Outcome(Lock \o Unlock, "null", -1)
    ELSE IF ~connected THEN Outcome(Lock \o Unlock, "set", -1)
    ELSE IF ready THEN Outcome(Lock \o Wait(waits) \o Unlock, "set", 0)
    ELSE LET c == rdpsnd_pulse_rec_close("set")
         IN  Outcome(Lock \o Wait(waits) \o Unlock \o c.events, c.stream, 0)

\* the untouched variables of the transport
TransportUnchanged ==
    UNCHANGED <<layerVars, rxVars, endVars, hdrVars, blocking, level, rs_data,
                pc, cb_status, peer, pdus, write_failed>>

\* an operation returns to its caller: the lock is held as many times as its
\* calls leave it
Returned(name, events, status) ==
    /\ mainloop_lock' = Held(mainloop_lock, events)
    /\ ret' = [op |-> name, status |-> status, reads |-> 0, writes |-> 0,
               n |-> 0, cb |-> FALSE, events |-> events]
    /\ TransportUnchanged

\* FreeRDPRdpsndDeviceEntry from its call of rdpsnd_pulse_connect: the device
\* is registered, or freed when the connection failed
Connect ==
    /\ pulse_context = "new"
    /\ \E connected \in BOOLEAN, started \in BOOLEAN, waits \in 0..MaxWaits, ready \in BOOLEAN :
        \E o \in {rdpsnd_pulse_connect(connected, started, waits, ready)} :
            \E c \in {rdpsnd_pulse_close(pulse_stream, 0)} :
                /\ pulse_context' = IF o.status = 1 THEN "ready" ELSE "null"
                /\ pulse_stream' = IF o.status = 1 THEN o.stream ELSE c.stream
                /\ UNCHANGED pulse_rec_stream
                /\ Returned("rdpsnd_pulse_connect",
                            IF o.status = 1 THEN o.events ELSE o.events \o c.events,
                            o.status)

\* an operation of the playback side on the registered device
Playback(name, o) ==
    /\ pulse_context = "ready"
    /\ pulse_stream' = o.stream
    /\ UNCHANGED <<pulse_context, pulse_rec_stream>>
    /\ Returned(name, o.events, o.status)

\* an operation of the recording side on the registered device
Recording(name, o) ==
    /\ pulse_context = "ready"
    /\ pulse_rec_stream' = o.stream
    /\ UNCHANGED <<pulse_context, pulse_stream>>
    /\ Returned(name, o.events, o.status)

Close ==
    \E drained \in 0..MaxWaits :
        Playback("rdpsnd_pulse_close", rdpsnd_pulse_close(pulse_stream, drained))

Open ==
    \E valid \in BOOLEAN, created \in BOOLEAN, connected \in BOOLEAN,
       waits \in 0..MaxWaits, ready \in BOOLEAN, drained \in 0..MaxWaits :
        Playback("rdpsnd_pulse_open",
                 rdpsnd_pulse_open(pulse_stream, valid, created, connected,
                                   waits, ready, drained))

SetFormat ==
    \E valid \in BOOLEAN, created \in BOOLEAN, connected \in BOOLEAN,
       waits \in 0..MaxWaits, ready \in BOOLEAN, drained \in 0..MaxWaits :
        Playback("rdpsnd_pulse_set_format",
                 rdpsnd_pulse_set_format(valid, created, connected, waits, ready, drained))

Play ==
    \E decoded \in BOOLEAN, size \in 0..1, waits \in 0..MaxWaits, written \in BOOLEAN :
        Playback("rdpsnd_pulse_play", rdpsnd_pulse_play(decoded, size, waits, written))

RecOpen ==
    \E rate \in BOOLEAN, created \in BOOLEAN, connected \in BOOLEAN,
       waits \in 0..MaxWaits, ready \in BOOLEAN :
        Recording("rdpsnd_pulse_rec_open",
                  rdpsnd_pulse_rec_open(rate, created, connected, waits, ready))

RecClose ==
    Recording("rdpsnd_pulse_rec_close", rdpsnd_pulse_rec_close(pulse_rec_stream))

\* rdpsnd_pulse_free of the registered device
Free ==
    /\ pulse_context = "ready"
    /\ \E drained \in 0..MaxWaits :
        \E c \in {rdpsnd_pulse_close(pulse_stream, drained)} :
            /\ pulse_context' = "null"
            /\ pulse_stream' = c.stream
            /\ UNCHANGED pulse_rec_stream
            /\ Returned("rdpsnd_pulse_free", c.events, 0)

\* FreeRDPRdpsndDeviceEntry up to its call of rdpsnd_pulse_connect: the
\* mainloop and the context exist, no stream is open
InitPulse ==
    /\ NoHeader
    /\ transport_new(<<>>, FALSE)
    /\ pulse_context = "new" /\ pulse_stream = "null" /\ pulse_rec_stream = "null"
    /\ mainloop_lock = 0

NextPulse ==
    \/ Connect
    \/ Open
    \/ Close
    \/ SetFormat
    \/ Play
    \/ RecOpen
    \/ RecClose
    \/ Free

SpecPulse == InitPulse /\ [][NextPulse]_vars

\* the calls on the lock are paired: every lock is made with the lock free
\* and is followed by one unlock, and a wait is made with the lock held
RECURSIVE Paired(_, _)
Paired(depth, events) ==
    IF events = <<>> THEN depth = 0
    ELSE IF Head(events) = "lock" THEN depth = 0 /\ Paired(1, Tail(events))
    ELSE IF Head(events) = "unlock" THEN depth = 1 /\ Paired(0, Tail(events))
    ELSE depth = 1 /\ Paired(depth, Tail(events))

\* an operation of the device returns in this step
PulseReturns == ret'.op \in {"rdpsnd_pulse_connect", "rdpsnd_pulse_open", "rdpsnd_pulse_close",
                             "rdpsnd_pulse_set_format", "rdpsnd_pulse_play",
                             "rdpsnd_pulse_rec_open", "rdpsnd_pulse_rec_close",
                             "rdpsnd_pulse_free"}

\* C27: every operation of the PulseAudio device that locks the threaded
\* mainloop unlocks it exactly once on every return path, error paths
\* included: the lock is never held when an operation returns.
C27_LockReleasedOnReturn ==
    /\ [](mainloop_lock = 0)
    /\ [][PulseReturns => Paired(0, ret'.events)]_vars

\* rdpsnd_pulse_open returned on the error path of pa_stream_connect_playback
\* and left the stream it created
C27_Witness ==
    /\ ret.op = "rdpsnd_pulse_open" /\ ret.status = 0 /\ pulse_stream = "set"
    /\ ret.events = <<"lock", "unlock">> /\ mainloop_lock = 0

====
